---- MODULE Spec2Model ----
(***************************************************************************)
(* Model of the HTTP layers of the stylk front-end:                        *)
(*   src/src/utils/http.js   createHttpClient().request, the interceptor   *)
(*                           registries and the three chains               *)
(*   src/src/api/client.js   apiRequest, shouldRetry, mapStatusToErrorType *)
(*   src/src/hooks/useApi.js useApi.execute and the verb hooks             *)
(*   src/src/stores/appStore.js      the persisted application store       *)
(*   src/src/hooks/usePagination.js  the pagination hook                   *)
(*   src/src/hooks/useForm.js        the form hook                         *)
(* One JavaScript job (the code between two awaits) is one action.         *)
(***************************************************************************)
EXTENDS Integers, Sequences, FiniteSets, TLC

VARIABLES
  requestInterceptors,   \* http.js:39  array of registered request interceptors
  responseInterceptors,  \* http.js:42
  errorInterceptors,     \* http.js:45
  regLog,                \* history: regLog[n] = the n-th registration (chain, fn)
  removed,               \* history: registrations whose remover has been called
  localStorage,          \* the keys the code reads and writes
  pathname,              \* window.location.pathname
  h,                     \* one logical request of createHttpClient().request
  chainOut,              \* the last chain run on a probe value (registry checks)
  api,                   \* api[c]: the logical request apiRequest call c runs
  hook,                  \* the state of one mounted useApi hook
  sr,                    \* one application of shouldRetry: arguments and result
  rd,                    \* one application of getRetryDelay: argument, draw, result
  store,                 \* appStore.js: the state of useAppStore
  appStorage,            \* the localStorage item 'app-storage' written by persist
  loggedOut,             \* history: logout ran and no user with a token was set since
  storeLog,              \* history: the last two store actions and the state before
  pg,                    \* one mounted usePagination hook
  form                   \* one mounted useForm hook

registryVars == <<requestInterceptors, responseInterceptors, errorInterceptors,
                  regLog, removed>>
browserVars == <<localStorage, pathname>>
vars == <<requestInterceptors, responseInterceptors, errorInterceptors,
          regLog, removed, localStorage, pathname, h, chainOut, api, hook, sr, rd,
          store, appStorage, loggedOut, storeLog, pg, form>>
storeVars == <<store, appStorage, loggedOut, storeLog>>
uiVars == <<store, appStorage, loggedOut, storeLog, pg, form>>

----------------------------------------------------------------------------
(* Bounds of the model *)

MaxRetries == 1      \* the retries option ranges over 0..MaxRetries
MaxAdds == 1         \* interceptors added by the application after module load

----------------------------------------------------------------------------
(* Values *)

Chains == {"request", "response", "error"}

\* Interceptor functions an application registers: A and B transform their
\* argument (they append their name to its tags), T throws, N returns null.
Taggers == {"A", "B"}
UserFns(chain) == IF chain = "error" THEN {"A", "T", "N"} ELSE {"A", "T"}

\* HTTP statuses a server answers with.
OkStatuses == {200}
ErrStatuses == {400, 401, 403, 404, 409, 422, 500}

\* errorData of a non-2xx response: a body with a message field, a body
\* without one, or a body that could not be read or parsed.
Bodies == {"message", "nomessage", "unreadable"}

NoError == [name |-> "undefined", api |-> FALSE, message |-> "undefined",
            status |-> -1, type |-> "undefined", tags |-> <<>>]

\* http.js ApiError (message, status, data, originalError)
HttpApiError(message, status) ==
  [name |-> "ApiError", api |-> TRUE, message |-> message, status |-> status,
   type |-> "undefined", tags |-> <<>>]

\* Exceptions that are not ApiErrors.
RawError(name, message) ==
  [name |-> name, api |-> FALSE, message |-> message, status |-> -1,
   type |-> "undefined", tags |-> <<>>]

AbortError == RawError("AbortError", "The operation was aborted.")
FailedToFetch == RawError("TypeError", "Failed to fetch")
LoadFailed == RawError("TypeError", "Load failed")
ParseError == RawError("SyntaxError", "Unexpected token")
InterceptorError == RawError("Error", "interceptor failed")

NoResponse == [data |-> "none", status |-> 0, tags |-> <<>>]
NoResult == [kind |-> "pending", error |-> NoError, response |-> NoResponse]
Resolved(resp) == [kind |-> "resolved", error |-> NoError, response |-> resp]
ResolvedNull == [kind |-> "null", error |-> NoError, response |-> NoResponse]
Thrown(err) == [kind |-> "thrown", error |-> err, response |-> NoResponse]

----------------------------------------------------------------------------
(* Interceptor registries: http.js 38-93 *)

\* Array.prototype.indexOf: first index holding the function, 0 when absent.
RECURSIVE indexOfFrom(_, _, _)
indexOfFrom(arr, fn, i) ==
  IF i > Len(arr) THEN 0
  ELSE IF arr[i].fn = fn THEN i ELSE indexOfFrom(arr, fn, i + 1)

indexOf(arr, fn) == indexOfFrom(arr, fn, 1)

\* splice(index, 1)
splice(arr, index) ==
  [i \in 1..(Len(arr) - 1) |-> IF i < index THEN arr[i] ELSE arr[i + 1]]

push(arr, fn) == Append(arr, [fn |-> fn, id |-> Len(regLog) + 1])

\* The remover returned by add*Interceptor(interceptor).
remover(arr, fn) ==
  LET index == indexOf(arr, fn)
  IN IF index # 0 THEN splice(arr, index) ELSE arr

addRequestInterceptor(fn) ==
  /\ requestInterceptors' = push(requestInterceptors, fn)
  /\ regLog' = Append(regLog, [chain |-> "request", fn |-> fn])
  /\ UNCHANGED <<responseInterceptors, errorInterceptors, removed>>

addResponseInterceptor(fn) ==
  /\ responseInterceptors' = push(responseInterceptors, fn)
  /\ regLog' = Append(regLog, [chain |-> "response", fn |-> fn])
  /\ UNCHANGED <<requestInterceptors, errorInterceptors, removed>>

addErrorInterceptor(fn) ==
  /\ errorInterceptors' = push(errorInterceptors, fn)
  /\ regLog' = Append(regLog, [chain |-> "error", fn |-> fn])
  /\ UNCHANGED <<requestInterceptors, responseInterceptors, removed>>

\* Calling the remover that registration n returned.
callRemover(n) ==
  /\ removed' = removed \cup {n}
  /\ requestInterceptors' =
       IF regLog[n].chain = "request"
       THEN remover(requestInterceptors, regLog[n].fn) ELSE requestInterceptors
  /\ responseInterceptors' =
       IF regLog[n].chain = "response"
       THEN remover(responseInterceptors, regLog[n].fn) ELSE responseInterceptors
  /\ errorInterceptors' =
       IF regLog[n].chain = "error"
       THEN remover(errorInterceptors, regLog[n].fn) ELSE errorInterceptors
  /\ UNCHANGED regLog

\* Registrations made while the module loads (http.js 428-471); their removers
\* are dropped, so they stay registered.
DefaultRegs == <<[chain |-> "request", fn |-> "auth"],
                 [chain |-> "response", fn |-> "identity"],
                 [chain |-> "error", fn |-> "on401"]>>

----------------------------------------------------------------------------
(* The interceptor callbacks *)

\* A request interceptor applied to a config: the default one (http.js
\* 428-444) adds the Authorization header when a token is stored.
callRequestInterceptor(fn, config) ==
  CASE fn = "auth" ->
         [threw |-> FALSE,
          value |-> IF localStorage.auth_token # "none"
                    THEN [config EXCEPT !.Authorization = localStorage.auth_token]
                    ELSE config]
    [] fn = "T" -> [threw |-> TRUE, value |-> config]
    [] OTHER -> [threw |-> FALSE, value |-> [config EXCEPT !.tags = Append(@, fn)]]

\* A response interceptor; the default one (http.js 447-450) is the identity.
callResponseInterceptor(fn, response) ==
  CASE fn = "identity" -> [threw |-> FALSE, value |-> response]
    [] fn = "T" -> [threw |-> TRUE, value |-> response]
    [] OTHER -> [threw |-> FALSE, value |-> [response EXCEPT !.tags = Append(@, fn)]]

\* An error interceptor: out is "error" (an Error is returned), "null" or
\* "threw". The default one (http.js 453-471) handles a 401 by redirecting.
callErrorInterceptor(fn, error) ==
  CASE fn = "on401" ->
         IF error.api /\ error.status = 401 /\ pathname # "/login"
         THEN [out |-> "null", value |-> error, redirect |-> TRUE]
         ELSE [out |-> "error", value |-> error, redirect |-> FALSE]
    [] fn = "T" -> [out |-> "threw", value |-> error, redirect |-> FALSE]
    [] fn = "N" -> [out |-> "null", value |-> error, redirect |-> FALSE]
    [] OTHER -> [out |-> "error", value |-> [error EXCEPT !.tags = Append(@, fn)],
                 redirect |-> FALSE]

----------------------------------------------------------------------------
(* The three chains: http.js 137-186 *)

\* requestInterceptors.reduce(...): an exception of a callback leaves the reduce.
RECURSIVE reduceRequest(_, _, _)
reduceRequest(arr, i, config) ==
  IF i > Len(arr) THEN [threw |-> FALSE, value |-> config]
  ELSE LET r == callRequestInterceptor(arr[i].fn, config)
       IN IF r.threw THEN [threw |-> TRUE, value |-> config]
          ELSE reduceRequest(arr, i + 1, r.value)

applyRequestInterceptors(arr, config) == reduceRequest(arr, 1, config)

RECURSIVE reduceResponse(_, _, _)
reduceResponse(arr, i, response) ==
  IF i > Len(arr) THEN [threw |-> FALSE, value |-> response]
  ELSE LET r == callResponseInterceptor(arr[i].fn, response)
       IN IF r.threw THEN [threw |-> TRUE, value |-> response]
          ELSE reduceResponse(arr, i + 1, r.value)

applyResponseInterceptors(arr, response) == reduceResponse(arr, 1, response)

\* errorLoop with the early return on null left out: the loop goes on with the
\* error it had and the chain returns that error.
RECURSIVE errorLoopWithoutReturn(_, _, _, _, _)
errorLoopWithoutReturn(arr, i, currentError, calls, redirect) ==
  IF i > Len(arr)
  THEN [isNull |-> FALSE, value |-> currentError, calls |-> calls,
        redirect |-> redirect]
  ELSE LET r == callErrorInterceptor(arr[i].fn, currentError)
           calls2 == Append(calls, [id |-> arr[i].id, fn |-> arr[i].fn,
                                    arg |-> currentError, out |-> r.out])
       IN IF r.out = "error"
          THEN errorLoopWithoutReturn(arr, i + 1, r.value, calls2, redirect)
          ELSE errorLoopWithoutReturn(arr, i + 1, currentError, calls2,
                                      redirect \/ r.redirect)

\* for (const interceptor of errorInterceptors) { try { ... } catch { log } }
\* calls: the callbacks invoked, in order, each with its argument and outcome.
RECURSIVE errorLoop(_, _, _, _, _)
errorLoop(arr, i, currentError, calls, redirect) ==
  IF i > Len(arr)
  THEN [isNull |-> FALSE, value |-> currentError, calls |-> calls,
        redirect |-> redirect]
  ELSE LET r == callErrorInterceptor(arr[i].fn, currentError)
           calls2 == Append(calls, [id |-> arr[i].id, fn |-> arr[i].fn,
                                    arg |-> currentError, out |-> r.out])
       IN IF r.out = "null"
          THEN [isNull |-> TRUE, value |-> currentError, calls |-> calls2,
                redirect |-> redirect \/ r.redirect]
          ELSE IF r.out = "error"
          THEN errorLoop(arr, i + 1, r.value, calls2, redirect)
          ELSE errorLoop(arr, i + 1, currentError, calls2, redirect)

applyErrorInterceptors(arr, error) == errorLoop(arr, 1, error, <<>>, FALSE)

----------------------------------------------------------------------------
(* createHttpClient().request: http.js 203-352 *)

\* The statuses the loop means to throw "immediately" for (http.js 282-290).
NonRetryable == {400, 401, 403, 404, 422}

IdleRequest ==
  [pc |-> "idle", retries |-> 0, attempt |-> 0,
   lastError |-> NoError, timerPending |-> FALSE, aborted |-> FALSE,
   config |-> [tags |-> <<>>, Authorization |-> "none"],
   status |-> 0, fetches |-> 0, result |-> NoResult, errCalls |-> <<>>,
   errSkipped |-> 0, threw |-> {}, okBody |-> FALSE, terminalAt |-> 0,
   waits |-> 0, netFails |-> 0, respRuns |-> 0, errRuns |-> 0,
   derived |-> [tags |-> <<>>, Authorization |-> "none"]]

\* afterLoop with the clearTimeout of line 340 left out.
afterLoopKeepsTimer(hh) ==
  LET processed == applyErrorInterceptors(errorInterceptors, hh.lastError)
  IN [hh EXCEPT !.pc = "done",
                !.errRuns = @ + 1,
                !.errCalls = processed.calls,
                !.errSkipped = Len(errorInterceptors) - Len(processed.calls),
                !.result = IF processed.isNull THEN ResolvedNull
                           ELSE Thrown(processed.value)]

\* http.js 339-351: clearTimeout, the error chain, return null or throw.
afterLoop(hh) ==
  LET processed == applyErrorInterceptors(errorInterceptors, hh.lastError)
  IN [hh EXCEPT !.pc = "done", !.timerPending = FALSE,
                !.errRuns = @ + 1,
                !.errCalls = processed.calls,
                !.errSkipped = Len(errorInterceptors) - Len(processed.calls),
                !.result = IF processed.isNull THEN ResolvedNull
                           ELSE Thrown(processed.value)]

\* http.js 246: the next fetch of the loop, issued with the controller's signal
\* and the fetchOptions computed before the loop. derived records what the
\* request chain makes of the merged options at the time of this fetch.
nextFetch(hh) ==
  [hh EXCEPT !.pc = "fetch", !.fetches = @ + 1,
             !.derived = applyRequestInterceptors(requestInterceptors,
                                                  IdleRequest.config).value]

\* catchBlock breaking one attempt late: attempt === retries + 1.
catchBlockBreaksLate(hh, error) ==
  LET lastError ==
        IF error.name = "AbortError"
        THEN HttpApiError("Request timed out", 408)
        ELSE IF error.name = "TypeError" /\ error.message = "Failed to fetch"
        THEN HttpApiError("Network error - please check your connection", 0)
        ELSE error
      h1 == [hh EXCEPT !.lastError = lastError]
  IN IF hh.attempt = hh.retries + 1
     THEN afterLoop(h1)
     ELSE [h1 EXCEPT !.pc = "wait", !.waits = @ + 1]

\* http.js 295-334: the catch block of one attempt.
catchBlock(hh, error) ==
  LET lastError ==
        IF error.name = "AbortError"
        THEN HttpApiError("Request timed out", 408)
        ELSE IF error.name = "TypeError" /\ error.message = "Failed to fetch"
        THEN HttpApiError("Network error - please check your connection", 0)
        ELSE error
      h1 == [hh EXCEPT !.lastError = lastError]
  IN IF hh.attempt = hh.retries
     THEN afterLoop(h1)
     ELSE [h1 EXCEPT !.pc = "wait", !.waits = @ + 1]

\* The 401 interceptor's side effects on the page (http.js 457-462).
redirected(hh) ==
  /\ hh.pc = "done"
  /\ hh.errCalls # <<>>
  /\ hh.errCalls[Len(hh.errCalls)].fn = "on401"
  /\ hh.errCalls[Len(hh.errCalls)].out = "null"

browserAfter(hNew) ==
  IF h.pc # "done" /\ redirected(hNew)
  THEN /\ localStorage' = [localStorage EXCEPT !.auth_redirect = pathname]
       /\ pathname' = "/login"
  ELSE UNCHANGED browserVars

\* http.js 203-249: merge the options, run the request chain, arm the timer
\* and issue the first fetch. A signal the caller passed in options is
\* overridden by the controller's own (http.js 247-248), so it is not kept.
request(retries) ==
  /\ h.pc = "idle"
  /\ LET rc == applyRequestInterceptors(requestInterceptors, IdleRequest.config)
         h0 == [h EXCEPT !.retries = retries]
     IN h' = IF rc.threw
             THEN [h0 EXCEPT !.pc = "done", !.threw = @ \cup {"request"},
                             !.result = Thrown(InterceptorError)]
             ELSE nextFetch([h0 EXCEPT !.config = rc.value, !.timerPending = TRUE])
  /\ UNCHANGED <<registryVars, browserVars>>

\* http.js 226-228: the timeout callback, controller.abort().
timeoutFires ==
  /\ h.timerPending
  /\ h' = [h EXCEPT !.timerPending = FALSE, !.aborted = TRUE]
  /\ UNCHANGED <<registryVars, browserVars>>

\* http.js 246-264: fetch resolves; a 2xx response clears the timer and its
\* body is read, any other status has its body read best-effort.
fetchResolves(status) ==
  /\ h.pc = "fetch"
  /\ ~h.aborted
  /\ h' = IF status \in OkStatuses
          THEN [h EXCEPT !.pc = "body", !.status = status, !.timerPending = FALSE]
          ELSE [h EXCEPT !.pc = "errbody", !.status = status,
                         !.terminalAt = IF status \in NonRetryable /\ @ = 0
                                        THEN h.fetches ELSE @]
  /\ UNCHANGED <<registryVars, browserVars>>

\* fetch rejects: with an AbortError once the controller's signal is aborted,
\* otherwise with the platform's network TypeError.
fetchRejects(error) ==
  /\ h.pc = "fetch"
  /\ error \in (IF h.aborted THEN {AbortError} ELSE {FailedToFetch, LoadFailed})
  /\ LET hn == catchBlock([h EXCEPT !.netFails = IF h.aborted THEN @ ELSE @ + 1],
                          error)
     IN h' = hn /\ browserAfter(hn)
  /\ UNCHANGED registryVars

\* http.js 262-263: processResponse of a 2xx response settles; on success the
\* response chain runs. Whatever is thrown here lands in the catch block.
bodyRead(ok) ==
  /\ h.pc = "body"
  /\ LET rs == applyResponseInterceptors(responseInterceptors,
                 [data |-> "data", status |-> h.status, tags |-> <<>>])
         hn == IF ~ok
               THEN catchBlock(h, ParseError)
               ELSE IF rs.threw
               THEN catchBlock([h EXCEPT !.okBody = TRUE, !.respRuns = @ + 1,
                                         !.threw = @ \cup {"response"}],
                               InterceptorError)
               ELSE [h EXCEPT !.pc = "done", !.okBody = TRUE, !.respRuns = @ + 1,
                              !.result = Resolved(rs.value)]
     IN h' = hn /\ browserAfter(hn)
  /\ UNCHANGED registryVars

\* http.js 267-293 and 336: the error body settles (a failure gives null), the
\* ApiError is built; a non-retryable status throws it into the catch block,
\* any other status stores it and the loop goes on without waiting.
errorBodyRead(body) ==
  /\ h.pc = "errbody"
  /\ LET apiError == HttpApiError(IF body = "message" THEN "data.message"
                                  ELSE "ERROR_MESSAGES", h.status)
         h1 == [h EXCEPT !.lastError = apiError, !.attempt = @ + 1]
         hn == IF h.status \in NonRetryable
               THEN catchBlock(h, apiError)
               ELSE IF h1.attempt <= h1.retries THEN nextFetch(h1)
               ELSE afterLoop(h1)
     IN h' = hn /\ browserAfter(hn)
  /\ UNCHANGED registryVars

\* http.js 333-336: the retry delay elapses, attempt++ and the loop fetches.
retryDelayElapses ==
  /\ h.pc = "wait"
  /\ h' = nextFetch([h EXCEPT !.attempt = @ + 1])
  /\ UNCHANGED <<registryVars, browserVars>>

----------------------------------------------------------------------------
(* Chain runs on a probe value, to observe the order of a registry *)

NoChainRun == [chain |-> "none", tags |-> <<>>, surviving |-> <<>>]

\* The functions of the registrations of a chain whose remover was not called,
\* in registration order.
RECURSIVE survivingFrom(_, _)
survivingFrom(chain, n) ==
  IF n > Len(regLog) THEN <<>>
  ELSE IF regLog[n].chain = chain /\ n \notin removed
       THEN <<regLog[n].fn>> \o survivingFrom(chain, n + 1)
       ELSE survivingFrom(chain, n + 1)

surviving(chain) == survivingFrom(chain, 1)

isTagger(fn) == fn \in Taggers

\* Run one chain on a fresh value and keep the tags it comes back with.
runChain(chain) ==
  /\ chainOut' =
       [chain |-> chain,
        tags |-> CASE chain = "request" ->
                        applyRequestInterceptors(requestInterceptors,
                          [tags |-> <<>>, Authorization |-> "none"]).value.tags
                   [] chain = "response" ->
                        applyResponseInterceptors(responseInterceptors,
                          [data |-> "data", status |-> 200, tags |-> <<>>]).value.tags
                   [] chain = "error" ->
                        applyErrorInterceptors(errorInterceptors,
                          HttpApiError("ERROR_MESSAGES", 500)).value.tags,
        surviving |-> SelectSeq(surviving(chain), isTagger)]
  /\ UNCHANGED <<registryVars, browserVars, h, api, hook, sr, rd, uiVars>>

----------------------------------------------------------------------------
(* stores/appStore.js: the application store and its persisted copy *)

\* appStore.js 63-66 and 83-85: the user of a signed-out session.
NoUser == [id |-> "null", name |-> "null", token |-> "undefined"]

Tokens == {"tok1", "tok2"}

\* The users setUser is called with: without a token property, with an empty
\* one, or carrying a token.
Users == {[id |-> "123", name |-> "John", token |-> t] :
            t \in {"undefined", ""} \cup Tokens}

Themes == {"light", "dark"}

\* appStore.js 59-67: the initial state.
InitialStore ==
  [isLoading |-> FALSE, error |-> "null", user |-> NoUser, theme |-> "light"]

\* appStore.js 96-99: the part of the state that is persisted.
partialize(state) == [user |-> state.user, theme |-> state.theme]

\* The item 'app-storage': missing, not parseable as JSON, or the JSON text
\* persist wrote for a state.
NoItem == [kind |-> "absent", state |-> partialize(InitialStore)]
CorruptItem == [kind |-> "corrupt", state |-> partialize(InitialStore)]
setItem(state) == [kind |-> "json", state |-> partialize(state)]

hasToken(user) == user.token \notin {"undefined", ""}

\* set(partial) under the persist middleware: the state is replaced and the
\* item is rewritten in the same job.
set(next) ==
  /\ store' = next
  /\ appStorage' = setItem(next)

setLoading(isLoading) ==
  /\ set([store EXCEPT !.isLoading = isLoading])
  /\ UNCHANGED loggedOut

setError(error) ==
  /\ set([store EXCEPT !.error = error])
  /\ UNCHANGED loggedOut

clearError ==
  /\ set([store EXCEPT !.error = "null"])
  /\ UNCHANGED loggedOut

setUser(user) ==
  /\ set([store EXCEPT !.user = user])
  /\ loggedOut' = IF hasToken(user) THEN FALSE ELSE loggedOut

\* A logout that puts the whole state back to the initial one.
logoutResettingStore ==
  /\ set(InitialStore)
  /\ loggedOut' = TRUE

logout ==
  /\ set([store EXCEPT !.user = [id |-> "null", name |-> "null",
                                  token |-> "undefined"]])
  /\ loggedOut' = TRUE

setTheme(theme) ==
  /\ set([store EXCEPT !.theme = theme])
  /\ UNCHANGED loggedOut

toggleTheme ==
  /\ set([store EXCEPT !.theme = IF store.theme = "light" THEN "dark" ELSE "light"])
  /\ UNCHANGED loggedOut

----------------------------------------------------------------------------
(* api/client.js: authentication headers, lines 128-155 and 199-203 *)

NoAuthorization == [scheme |-> "none", token |-> "none"]
Bearer(token) == [scheme |-> "Bearer", token |-> token]

\* The values of the auth option: left out, true or false.
AuthOptions == {"undefined", "true", "false"}

\* client.js 128-139: parsed?.state?.user?.token || null, and null when the
\* item is missing or JSON.parse throws.
getAuthToken ==
  IF appStorage.kind = "absent" THEN "null"
  ELSE IF appStorage.kind = "corrupt" THEN "null"
  ELSE LET token == appStorage.state.user.token
       IN IF token \in {"undefined", ""} THEN "null" ELSE token

\* client.js 146-155: the Authorization header added to the caller's headers.
addAuthHeaders ==
  LET token == getAuthToken
  IN IF token # "null" THEN Bearer(token) ELSE NoAuthorization

\* requestHeaders of a client that does not look at the auth option.
requestHeadersIgnoringAuth(auth) ==
  addAuthHeaders

\* client.js 175 and 199-203: auth = true by default; the Authorization header
\* of an attempt whose caller supplied none.
requestHeaders(auth) ==
  LET flag == IF auth = "undefined" THEN "true" ELSE auth
  IN IF flag = "true" THEN addAuthHeaders ELSE NoAuthorization

\* What is recorded of an attempt: the header sent, and what the store held
\* when it was sent.
sentHeaders(auth) ==
  [Authorization |-> requestHeaders(auth), auth |-> auth,
   stored |-> store.user.token, loggedOut |-> loggedOut]

----------------------------------------------------------------------------
(* hooks/usePagination.js *)

MaxItems == 4        \* totalItems ranges over 0..MaxItems
MaxPageSize == 3     \* page sizes range over 1..MaxPageSize
MaxBatch == 2        \* calls of the hook's functions between two renders

PageSizes == 1..MaxPageSize

\* usePagination.js 42-44: Math.max(1, Math.ceil(totalItems / pageSize)).
totalPages(totalItems, pageSize) ==
  LET ceil == (totalItems + pageSize - 1) \div pageSize
  IN IF ceil > 1 THEN ceil ELSE 1

\* usePagination.js 123-136: pageInfo as a render computes it.
pageInfo(page, pageSize, totalItems) ==
  [currentPage |-> page,
   totalPages |-> totalPages(totalItems, pageSize),
   hasNextPage |-> page < totalPages(totalItems, pageSize),
   hasPrevPage |-> page > 1]

NoChange == [page |-> 0, pageSize |-> 0, newSize |-> 0, newPage |-> 0]

\* The hook after its first render with initialPage = 1. page, pageSize and
\* totalItems are the values of the last render, which the functions the
\* render returned close over; queue holds the setPage updates made since,
\* pendingSize the setPageSize update (0: none), batch the functions called
\* since the last render, and last what changePageSize saw and computed, kept
\* until a render that applies anything else.
Mounted(pageSize, totalItems) ==
  [page |-> 1, pageSize |-> pageSize, totalItems |-> totalItems,
   queue |-> <<>>, pendingSize |-> 0, batch |-> <<>>,
   info |-> pageInfo(1, pageSize, totalItems), last |-> NoChange]

setPage(p, update, name) ==
  [p EXCEPT !.queue = Append(@, update), !.batch = Append(@, name)]

\* usePagination.js 80-83.
goToPage(newPage) ==
  LET tp == totalPages(pg.totalItems, pg.pageSize)
      low == IF newPage < tp THEN newPage ELSE tp
      targetPage == IF low > 1 THEN low ELSE 1
  IN pg' = setPage(pg, [op |-> "set", v |-> targetPage], "goToPage")

\* usePagination.js 86-90.
nextPage ==
  pg' = IF pg.page < totalPages(pg.totalItems, pg.pageSize)
        THEN setPage(pg, [op |-> "add", v |-> 1], "nextPage")
        ELSE [pg EXCEPT !.batch = Append(@, "nextPage")]

\* usePagination.js 93-97.
prevPage ==
  pg' = IF pg.page > 1
        THEN setPage(pg, [op |-> "add", v |-> -1], "prevPage")
        ELSE [pg EXCEPT !.batch = Append(@, "prevPage")]

\* usePagination.js 100-102.
firstPage ==
  pg' = setPage(pg, [op |-> "set", v |-> 1], "firstPage")

\* usePagination.js 105-107.
lastPage ==
  pg' = setPage(pg, [op |-> "set",
                     v |-> totalPages(pg.totalItems, pg.pageSize)], "lastPage")

\* changePageSize with Math.ceil in place of Math.floor.
changePageSizeRoundingUp(newSize) ==
  LET firstItemIndex == (pg.page - 1) * pg.pageSize
      newPage == ((firstItemIndex + newSize - 1) \div newSize) + 1
  IN pg' = [setPage(pg, [op |-> "set", v |-> newPage], "changePageSize")
              EXCEPT !.pendingSize = newSize,
                     !.last = [page |-> pg.page, pageSize |-> pg.pageSize,
                               newSize |-> newSize, newPage |-> newPage]]

\* usePagination.js 110-120.
changePageSize(newSize) ==
  LET firstItemIndex == (pg.page - 1) * pg.pageSize
      newPage == (firstItemIndex \div newSize) + 1
  IN pg' = [setPage(pg, [op |-> "set", v |-> newPage], "changePageSize")
              EXCEPT !.pendingSize = newSize,
                     !.last = [page |-> pg.page, pageSize |-> pg.pageSize,
                               newSize |-> newSize, newPage |-> newPage]]

\* The queued setPage updates applied in order to the page of the last render.
RECURSIVE applyUpdates(_, _)
applyUpdates(page, queue) ==
  IF queue = <<>> THEN page
  ELSE applyUpdates(IF Head(queue).op = "set" THEN Head(queue).v
                    ELSE page + Head(queue).v, Tail(queue))

\* usePagination.js 47-51: the effect that runs after a render; the updates
\* it makes.
clampEffect(page, pageSize, totalItems) ==
  IF page > totalPages(totalItems, pageSize)
  THEN <<[op |-> "set", v |-> totalPages(totalItems, pageSize)]>>
  ELSE <<>>

\* A render with the props totalItems: the pending updates are applied, the
\* memoised values recomputed (lines 38-44, 123-136), the effect run, and,
\* when the effect has set the page, the component rendered once more.
render(totalItems) ==
  LET updated == applyUpdates(pg.page, pg.queue)
      pageSize == IF pg.pendingSize # 0 THEN pg.pendingSize ELSE pg.pageSize
      page == applyUpdates(updated, clampEffect(updated, pageSize, totalItems))
  IN pg' = [pg EXCEPT !.page = page, !.pageSize = pageSize,
                      !.totalItems = totalItems, !.queue = <<>>,
                      !.pendingSize = 0, !.batch = <<>>,
                      !.last = IF pg.batch = <<"changePageSize">> THEN @
                               ELSE NoChange,
                      !.info = pageInfo(page, pageSize, totalItems)]

----------------------------------------------------------------------------
(* hooks/useForm.js, and validateForm of utils/format.js *)

MaxSubmits == 3      \* calls of handleSubmit

\* The form has one field; a schema is empty or requires the field.
FieldValues == {"", "a"}
Schemas == {"empty", "required"}

\* format.js 471-503: the fields in error, with one rule { required: true }.
validateForm(data, schema) ==
  LET errors == IF schema = "required" /\ data = "" THEN {"field"} ELSE {}
  IN [isValid |-> errors = {}, errors |-> errors]

\* The hook after its first render. pending: the calls of onSubmit that have
\* not settled; submitted: the values onSubmit was called with; refused: the
\* calls of handleSubmit that validation stopped; settled: how the last
\* onSubmit to settle ended.
NewForm(schema, hasOnSubmit) ==
  [values |-> "", validationSchema |-> schema, onSubmit |-> hasOnSubmit,
   errors |-> {}, touched |-> FALSE, isSubmitting |-> FALSE, submitCount |-> 0,
   pending |-> {}, submitted |-> {}, refused |-> 0, settled |-> "none"]

\* useForm.js 48-56: validate(formValues): the result, and the form after its
\* setErrors.
validate(f, formValues) ==
  IF f.validationSchema = "empty"
  THEN [result |-> [isValid |-> TRUE, errors |-> {}], form |-> f]
  ELSE LET result == validateForm(formValues, f.validationSchema)
       IN [result |-> result, form |-> [f EXCEPT !.errors = result.errors]]

\* useForm.js 59-64, with the initial values.
resetForm ==
  form' = [form EXCEPT !.values = "", !.errors = {}, !.touched = FALSE,
                       !.isSubmitting = FALSE]

\* useForm.js 67-75, validateOnChange left at its default.
setFieldValue(value) ==
  form' = validate([form EXCEPT !.values = value], value).form

\* useForm.js 85-92, validateOnBlur left at its default.
setFieldTouched ==
  form' = validate([form EXCEPT !.touched = TRUE], form.values).form

\* handleSubmit without the return of lines 119-121.
handleSubmitWithoutValidation(sync) ==
  LET n == form.submitCount + 1
      v == validate([form EXCEPT !.submitCount = n, !.touched = TRUE], form.values)
  IN /\ form.submitCount < MaxSubmits
     /\ form' = IF ~form.onSubmit THEN v.form
                ELSE IF sync = "throws"
                THEN [v.form EXCEPT !.isSubmitting = FALSE, !.settled = "threw",
                                    !.submitted = @ \cup {form.values}]
                ELSE [v.form EXCEPT !.isSubmitting = TRUE, !.pending = @ \cup {n},
                                    !.submitted = @ \cup {form.values}]

\* useForm.js 101-127: handleSubmit up to the await of onSubmit. sync tells
\* whether onSubmit throws before returning a promise (then lines 128-133
\* run in the same job).
handleSubmit(sync) ==
  LET n == form.submitCount + 1
      v == validate([form EXCEPT !.submitCount = n, !.touched = TRUE], form.values)
  IN /\ form.submitCount < MaxSubmits
     /\ form' = IF ~v.result.isValid
                THEN [v.form EXCEPT !.refused = @ + 1]
                ELSE IF ~form.onSubmit THEN v.form
                ELSE IF sync = "throws"
                THEN [v.form EXCEPT !.isSubmitting = FALSE, !.settled = "threw",
                                    !.submitted = @ \cup {form.values}]
                ELSE [v.form EXCEPT !.isSubmitting = TRUE, !.pending = @ \cup {n},
                                    !.submitted = @ \cup {form.values}]

\* useForm.js 127-133: the promise onSubmit returned resolves or rejects.
onSubmitSettles(n, outcome) ==
  /\ n \in form.pending
  /\ form' = [form EXCEPT !.pending = @ \ {n}, !.settled = outcome,
                          !.isSubmitting = FALSE]

----------------------------------------------------------------------------
(* api/client.js: classification and retry policy, lines 39-102 *)

DefaultRetries == 1     \* DEFAULT_OPTIONS.retries

\* client.js ApiError (message, type, statusCode, data)
ClientApiError(message, type, statusCode) ==
  [name |-> "ApiError", api |-> TRUE, message |-> message, status |-> statusCode,
   type |-> type, tags |-> <<>>]

mapStatusToErrorType(statusCode) ==
  IF statusCode >= 500 THEN "server"
  ELSE IF statusCode = 401 \/ statusCode = 403 THEN "authentication"
  ELSE IF statusCode = 404 THEN "not_found"
  ELSE IF statusCode = 422 THEN "validation"
  ELSE "unknown"

\* shouldRetry with the cap compared by > instead of >=.
shouldRetryOffByOne(error, retryCount, maxRetries) ==
  IF retryCount > maxRetries THEN FALSE
  ELSE IF error.type = "authentication" \/ error.type = "validation"
          \/ error.type = "canceled"
  THEN FALSE
  ELSE \/ error.type = "network"
       \/ error.type = "timeout"
       \/ (error.type = "server" /\ error.status >= 500)

shouldRetry(error, retryCount, maxRetries) ==
  IF retryCount >= maxRetries THEN FALSE
  ELSE IF error.type = "authentication" \/ error.type = "validation"
          \/ error.type = "canceled"
  THEN FALSE
  ELSE \/ error.type = "network"
       \/ error.type = "timeout"
       \/ (error.type = "server" /\ error.status >= 500)

----------------------------------------------------------------------------
(* apiRequest: client.js 171-341 *)

MaxCalls == 2
Calls == 1..MaxCalls

\* What fetch rejects with when controller.abort('timeout') fired: the reason
\* itself, a string (name and message undefined), on platforms that pass abort
\* reasons through; an AbortError DOMException on those that ignore the reason.
TimeoutReason == RawError("undefined", "undefined")

IdleCall ==
  [pc |-> "idle", retries |-> 0, hasSignal |-> FALSE, currentRetry |-> 0,
   timerPending |-> FALSE, ctrlAborted |-> FALSE, callerAborted |-> FALSE,
   status |-> 0, fetches |-> 0, result |-> NoResult,
   cause |-> "none", failedAt |-> 0, terminalAt |-> 0,
   waits |-> 0, netFails |-> 0, body |-> "none",
   auth |-> "undefined", sent |-> <<>>]

\* requestSignal = signal || controller.signal (client.js 188): is it aborted?
requestSignalAborted(a) ==
  IF a.hasSignal THEN a.callerAborted ELSE a.ctrlAborted

\* client.js 262-336: the catch block of executeRequest. cause records what
\* made the attempt fail and failedAt the retries made when it failed.
apiCatch(a0, error, cause) ==
  LET a == [a0 EXCEPT !.timerPending = FALSE, !.cause = cause,
                      !.failedAt = a0.currentRetry,
                      !.netFails = IF cause = "network" THEN @ + 1 ELSE @]
      abortError ==
        IF error.message = "timeout"
        THEN ClientApiError("Request timed out", "timeout", 0)
        ELSE ClientApiError("Request canceled", "canceled", 0)
      networkError ==
        ClientApiError(IF error.message = "undefined" THEN "Network error"
                       ELSE error.message, "network", 0)
      retry == [a EXCEPT !.pc = "wait", !.currentRetry = @ + 1, !.waits = @ + 1]
  IN IF error.name = "AbortError"
     THEN [a EXCEPT !.pc = "done", !.result = Thrown(abortError)]
     ELSE IF error.api
     THEN IF shouldRetry(error, a.currentRetry, a.retries)
          THEN retry
          ELSE [a EXCEPT !.pc = "done", !.result = Thrown(error)]
     ELSE IF shouldRetry(networkError, a.currentRetry, a.retries)
          THEN retry
          ELSE [a EXCEPT !.pc = "done", !.result = Thrown(networkError)]

\* useApi.execute after its await (useApi.js 65-99), for a call the hook made.
hookSettles(c, result) ==
  LET applies == ~(result.kind = "thrown" /\ result.error.type = "canceled")
      h1 == IF result.kind = "resolved"
            THEN [hook EXCEPT !.data = result.response.data, !.loading = FALSE]
            ELSE IF applies
            THEN [hook EXCEPT !.error = result.error.type, !.loading = FALSE]
            ELSE hook
  IN [h1 EXCEPT !.controller = IF @ = c THEN 0 ELSE @,
                !.applied = IF applies THEN @ \cup {c} ELSE @]

\* A job of call c ends with its request in state a; when the request has
\* settled, the caller's continuation runs in the same job.
commit(c, a) ==
  /\ api' = [api EXCEPT ![c] = a]
  /\ hook' = IF a.pc = "done" /\ c <= hook.issued
             THEN hookSettles(c, a.result) ELSE hook

\* client.js 171-222: apiRequest arms the timer and executeRequest issues the
\* first fetch. signal tells whether options.signal was supplied, auth is the
\* auth option; sent records the headers of every attempt.
apiRequest(c, retries, signal, auth) ==
  /\ api[c].pc = "idle"
  /\ api' = [api EXCEPT ![c] = [IdleCall EXCEPT !.pc = "fetch", !.retries = retries,
                                  !.hasSignal = signal, !.timerPending = TRUE,
                                  !.fetches = 1, !.auth = auth,
                                  !.sent = <<sentHeaders(auth)>>]]

\* The timeout callback of a client whose AbortController is one object
\* shared by all calls instead of a local of apiRequest.
apiTimeoutFiresSharedController(c) ==
  /\ api[c].timerPending
  /\ api' = [d \in Calls |->
              IF d = c THEN [api[d] EXCEPT !.timerPending = FALSE, !.ctrlAborted = TRUE]
              ELSE IF api[d].pc # "idle" THEN [api[d] EXCEPT !.ctrlAborted = TRUE]
              ELSE api[d]]

\* client.js 191-193: the timeout callback, controller.abort('timeout').
apiTimeoutFires(c) ==
  /\ api[c].timerPending
  /\ api' = [api EXCEPT ![c].timerPending = FALSE, ![c].ctrlAborted = TRUE]

\* The owner of the supplied signal aborts it.
apiSignalAborts(c) ==
  /\ api[c].hasSignal
  /\ ~api[c].callerAborted
  /\ api[c].pc \in {"fetch", "body", "wait"}
  /\ api' = [api EXCEPT ![c].callerAborted = TRUE]

\* client.js 216-234: fetch resolves, the timer is cleared, the body is read.
apiFetchResolves(c, status) ==
  /\ api[c].pc = "fetch"
  /\ ~requestSignalAborted(api[c])
  /\ api' = [api EXCEPT ![c].pc = "body", ![c].status = status,
                        ![c].timerPending = FALSE,
                        ![c].terminalAt = IF status \in NonRetryable /\ @ = 0
                                          THEN api[c].fetches ELSE @]

\* fetch rejects with a network TypeError.
apiFetchFails(c, error) ==
  /\ api[c].pc = "fetch"
  /\ ~requestSignalAborted(api[c])
  /\ commit(c, apiCatch(api[c], error, "network"))

\* fetch, or the pending body read, rejects because requestSignal is aborted.
apiAborted(c, error) ==
  /\ api[c].pc \in {"fetch", "body"}
  /\ requestSignalAborted(api[c])
  /\ error \in (IF api[c].hasSignal THEN {AbortError}
                ELSE {TimeoutReason, AbortError})
  /\ commit(c, apiCatch(api[c], error,
                        IF api[c].hasSignal THEN "caller" ELSE "timeout"))

\* client.js 227-261: the body is parsed; a non-2xx status throws an ApiError
\* of the mapped type into the catch block, a 2xx status returns the envelope.
apiBodyRead(c, body) ==
  /\ api[c].pc = "body"
  /\ ~requestSignalAborted(api[c])
  /\ LET a == [api[c] EXCEPT !.body = body]
         message == IF body = "message" THEN "data.message" ELSE "statusText"
     IN commit(c,
          IF body = "unreadable" THEN apiCatch(a, ParseError, "parse")
          ELSE IF a.status \in OkStatuses
          THEN [a EXCEPT !.pc = "done",
                         !.result = Resolved([data |-> c, status |-> a.status,
                                              tags |-> <<>>])]
          ELSE apiCatch(a, ClientApiError(message, mapStatusToErrorType(a.status),
                                          a.status),
                        IF a.status >= 500 THEN "server" ELSE "status"))

\* A retry that sends the headers built for the first attempt again.
apiRetriesReusingHeaders(c) ==
  /\ api[c].pc = "wait"
  /\ api' = [api EXCEPT ![c].pc = "fetch", ![c].fetches = @ + 1,
                        ![c].sent = Append(@, [sentHeaders(api[c].auth) EXCEPT
                                     !.Authorization = api[c].sent[1].Authorization])]

\* client.js 297-298, 325-326: the backoff delay elapses, executeRequest again
\* (which builds requestHeaders anew, lines 199-203).
apiRetries(c) ==
  /\ api[c].pc = "wait"
  /\ api' = [api EXCEPT ![c].pc = "fetch", ![c].fetches = @ + 1,
                        ![c].sent = Append(@, sentHeaders(api[c].auth))]

----------------------------------------------------------------------------
(* useApi: hooks/useApi.js *)

HookKinds == {"useApi", "useApiGet", "useApiPost", "useApiPut", "useApiDelete"}

\* How execute is called: without arguments, with one data object, or with a
\* data object and an options object.
ArgShapes == {"none", "data", "data,options"}

Unmounted ==
  [kind |-> "none", data |-> 0, loading |-> FALSE, error |-> "null",
   controller |-> 0, issued |-> 0, superseded |-> {}, applied |-> {},
   canceled |-> {}]

\* useApi.js 56-62 with the apiCall of each hook (useApi.js 152-155, 174-177,
\* 195-198, 216-219): does newController.signal arrive as options.signal of
\* apiRequest? execute puts it into its last argument when that is an object,
\* else appends { signal }.
\*   useApi       apiCall = (options) => api.get(endpoint, options)
\*   useApiGet    apiCall = (callParams) => api.get(endpoint, {params: callParams})
\*   useApiPost   apiCall = (data, callOptions) => api.post(endpoint, data, callOptions)
\*   useApiDelete apiCall = (callOptions) => api.delete(endpoint, callOptions)
signalReachesRequest(kind, args) ==
  CASE kind = "useApi" -> TRUE
    [] kind = "useApiGet" -> FALSE
    [] kind \in {"useApiPost", "useApiPut"} -> args = "data,options"
    [] kind = "useApiDelete" -> TRUE

\* useApi.js 40-65: execute aborts the controller in state, stores a new one,
\* sets loading and calls apiCall, which runs apiRequest up to its first await.
execute(args) ==
  LET c == hook.issued + 1
      old == hook.controller
      signal == signalReachesRequest(hook.kind, args)
      aborted == [api EXCEPT ![old].callerAborted = TRUE]
  IN /\ hook.kind # "none"
     /\ c \in Calls
     /\ api[c].pc = "idle"
     /\ api' = [(IF old # 0 /\ api[old].hasSignal /\ api[old].pc # "done"
                 THEN aborted ELSE api)
                EXCEPT ![c] = [IdleCall EXCEPT !.pc = "fetch",
                                 !.retries = DefaultRetries,
                                 !.hasSignal = signal, !.timerPending = TRUE,
                                 !.fetches = 1,
                                 !.sent = <<sentHeaders("undefined")>>]]
     /\ hook' = [hook EXCEPT !.controller = c, !.loading = TRUE,
                             !.error = "null", !.issued = c,
                             !.canceled = IF old # 0 THEN @ \cup {old} ELSE @,
                             !.superseded = @ \cup {d \in 1..hook.issued :
                                                      api[d].pc # "done"}]

\* useApi.js 118-126: reset puts back the initial state and aborts the
\* controller in state. canceled: the calls whose controller the hook aborted.
reset ==
  LET old == hook.controller
  IN /\ hook.kind # "none"
     /\ api' = IF old # 0 /\ api[old].hasSignal /\ api[old].pc # "done"
               THEN [api EXCEPT ![old].callerAborted = TRUE] ELSE api
     /\ hook' = [hook EXCEPT !.data = 0, !.error = "null", !.loading = FALSE,
                             !.controller = 0,
                             !.canceled = IF old # 0 THEN @ \cup {old} ELSE @]

----------------------------------------------------------------------------
(* shouldRetry applied to the errors apiRequest builds *)

MaxCount == 3

NoShouldRetry ==
  [error |-> NoError, retryCount |-> 0, maxRetries |-> 0, out |-> "none"]

ClassifiedErrors ==
  {ClientApiError("statusText", mapStatusToErrorType(s), s) :
     s \in ErrStatuses \cup {503}}
  \cup {ClientApiError("Network error", "network", 0),
        ClientApiError("Request timed out", "timeout", 0),
        ClientApiError("Request canceled", "canceled", 0)}

callShouldRetry(error, retryCount, maxRetries) ==
  /\ sr' = [error |-> error, retryCount |-> retryCount, maxRetries |-> maxRetries,
            out |-> IF shouldRetry(error, retryCount, maxRetries)
                    THEN "true" ELSE "false"]
  /\ UNCHANGED <<registryVars, browserVars, h, chainOut, api, hook, rd, uiVars>>

----------------------------------------------------------------------------
(* getRetryDelay: client.js 109-122 *)

MaxRetryCount == 6    \* getRetryDelay is applied to 0..MaxRetryCount
RandomSteps == 100    \* Math.random() draws r / RandomSteps, r in 0..RandomSteps-1

\* Delays are kept as integers: delay is the returned milliseconds times
\* DelayScale.
DelayScale == 10 * RandomSteps

NoRetryDelay == [retryCount |-> -1, r |-> 0, exponentialDelay |-> 0, delay |-> 0]

\* getRetryDelay without the Math.min cap.
getRetryDelayUncapped(retryCount, r) ==
  LET baseDelay == 300
      exponentialDelay == baseDelay * 2 ^ retryCount
      jitter == exponentialDelay * (2 * r - RandomSteps)
  IN [retryCount |-> retryCount, r |-> r,
      exponentialDelay |-> exponentialDelay,
      delay |-> exponentialDelay * DelayScale + jitter]

\* exponentialDelay = min(maxDelay, baseDelay * 2^retryCount);
\* jitter = exponentialDelay * 0.2 * (Math.random() - 0.5), which times
\* DelayScale is exponentialDelay * (2r - RandomSteps).
getRetryDelay(retryCount, r) ==
  LET baseDelay == 300
      maxDelay == 3000
      power == baseDelay * 2 ^ retryCount
      exponentialDelay == IF maxDelay < power THEN maxDelay ELSE power
      jitter == exponentialDelay * (2 * r - RandomSteps)
  IN [retryCount |-> retryCount, r |-> r,
      exponentialDelay |-> exponentialDelay,
      delay |-> exponentialDelay * DelayScale + jitter]

callGetRetryDelay(retryCount, r) ==
  /\ rd' = getRetryDelay(retryCount, r)
  /\ UNCHANGED <<registryVars, browserVars, h, chainOut, api, hook, sr, uiVars>>

----------------------------------------------------------------------------
(* The application registering and removing interceptors *)

AddRequestInterceptor ==
  /\ Len(regLog) < Len(DefaultRegs) + MaxAdds
  /\ \E fn \in UserFns("request") : addRequestInterceptor(fn)
  /\ UNCHANGED <<browserVars, h, chainOut, api, hook, sr, rd, uiVars>>

AddResponseInterceptor ==
  /\ Len(regLog) < Len(DefaultRegs) + MaxAdds
  /\ \E fn \in UserFns("response") : addResponseInterceptor(fn)
  /\ UNCHANGED <<browserVars, h, chainOut, api, hook, sr, rd, uiVars>>

AddErrorInterceptor ==
  /\ Len(regLog) < Len(DefaultRegs) + MaxAdds
  /\ \E fn \in UserFns("error") : addErrorInterceptor(fn)
  /\ UNCHANGED <<browserVars, h, chainOut, api, hook, sr, rd, uiVars>>

CallRemover ==
  /\ \E n \in (Len(DefaultRegs) + 1)..Len(regLog) : callRemover(n)
  /\ UNCHANGED <<browserVars, h, chainOut, api, hook, sr, rd, uiVars>>

HttpRequest ==
  /\ \E retries \in 0..MaxRetries : request(retries)
  /\ UNCHANGED <<chainOut, api, hook, sr, rd, uiVars>>

HttpTimeout ==
  /\ timeoutFires
  /\ UNCHANGED <<chainOut, api, hook, sr, rd, uiVars>>

HttpFetchResolves ==
  /\ \E status \in OkStatuses \cup ErrStatuses : fetchResolves(status)
  /\ UNCHANGED <<chainOut, api, hook, sr, rd, uiVars>>

HttpFetchRejects ==
  /\ \E error \in {AbortError, FailedToFetch, LoadFailed} : fetchRejects(error)
  /\ UNCHANGED <<chainOut, api, hook, sr, rd, uiVars>>

HttpBodyRead ==
  /\ \E ok \in BOOLEAN : bodyRead(ok)
  /\ UNCHANGED <<chainOut, api, hook, sr, rd, uiVars>>

HttpErrorBodyRead ==
  /\ \E body \in Bodies : errorBodyRead(body)
  /\ UNCHANGED <<chainOut, api, hook, sr, rd, uiVars>>

HttpRetryDelayElapses ==
  /\ retryDelayElapses
  /\ UNCHANGED <<chainOut, api, hook, sr, rd, uiVars>>

\* The application store as created, the item it persisted, and the two
\* hooks not in use.
InitUi ==
  /\ store = InitialStore
  /\ appStorage = setItem(InitialStore)
  /\ loggedOut = FALSE
  /\ storeLog = <<>>
  /\ pg = Mounted(1, 0)
  /\ form = NewForm("empty", FALSE)

InitRegistry ==
  /\ requestInterceptors = <<[fn |-> "auth", id |-> 1]>>
  /\ responseInterceptors = <<[fn |-> "identity", id |-> 2]>>
  /\ errorInterceptors = <<[fn |-> "on401", id |-> 3]>>
  /\ regLog = DefaultRegs
  /\ removed = {}

InitBrowser ==
  /\ localStorage \in [auth_token : {"none", "tok"}, auth_redirect : {"none"}]
  /\ pathname \in {"/login", "/dashboard"}

Init ==
  /\ InitRegistry
  /\ InitBrowser
  /\ h = IdleRequest
  /\ chainOut = NoChainRun
  /\ api = [c \in Calls |-> IdleCall]
  /\ hook = Unmounted
  /\ sr = NoShouldRetry
  /\ rd = NoRetryDelay
  /\ InitUi

\* Removers are exercised with the registries alone (NextRegistry).
Next ==
  \/ AddRequestInterceptor
  \/ AddResponseInterceptor
  \/ AddErrorInterceptor
  \/ HttpRequest
  \/ HttpTimeout
  \/ HttpFetchResolves
  \/ HttpFetchRejects
  \/ HttpBodyRead
  \/ HttpErrorBodyRead
  \/ HttpRetryDelayElapses

Spec == Init /\ [][Next]_vars

----------------------------------------------------------------------------
(* The registries alone: add, remove and chain runs *)

MaxRegAdds == 3

RegFns == {"A", "B"}

RegAddRequestInterceptor ==
  /\ Len(regLog) < Len(DefaultRegs) + MaxRegAdds
  /\ \E fn \in RegFns : addRequestInterceptor(fn)
  /\ UNCHANGED <<browserVars, h, chainOut, api, hook, sr, rd, uiVars>>

RegAddResponseInterceptor ==
  /\ Len(regLog) < Len(DefaultRegs) + MaxRegAdds
  /\ \E fn \in RegFns : addResponseInterceptor(fn)
  /\ UNCHANGED <<browserVars, h, chainOut, api, hook, sr, rd, uiVars>>

RegAddErrorInterceptor ==
  /\ Len(regLog) < Len(DefaultRegs) + MaxRegAdds
  /\ \E fn \in RegFns : addErrorInterceptor(fn)
  /\ UNCHANGED <<browserVars, h, chainOut, api, hook, sr, rd, uiVars>>

RunChain == \E chain \in Chains : runChain(chain)

NextRegistry ==
  \/ RegAddRequestInterceptor
  \/ RegAddResponseInterceptor
  \/ RegAddErrorInterceptor
  \/ CallRemover
  \/ RunChain

SpecRegistry == Init /\ [][NextRegistry]_vars

----------------------------------------------------------------------------
(* One apiRequest call and its environment *)

ApiRequest ==
  /\ \E retries \in 0..MaxRetries, signal \in BOOLEAN : apiRequest(1, retries, signal, "undefined")
  /\ UNCHANGED <<registryVars, browserVars, h, chainOut, hook, sr, rd, uiVars>>

ApiTimeoutFires ==
  /\ \E c \in Calls : apiTimeoutFires(c)
  /\ UNCHANGED <<registryVars, browserVars, h, chainOut, hook, sr, rd, uiVars>>

ApiSignalAborts ==
  /\ \E c \in Calls : apiSignalAborts(c)
  /\ UNCHANGED <<registryVars, browserVars, h, chainOut, hook, sr, rd, uiVars>>

ApiFetchResolves ==
  /\ \E c \in Calls, status \in OkStatuses \cup ErrStatuses : apiFetchResolves(c, status)
  /\ UNCHANGED <<registryVars, browserVars, h, chainOut, hook, sr, rd, uiVars>>

ApiFetchFails ==
  /\ \E c \in Calls, error \in {FailedToFetch, LoadFailed} : apiFetchFails(c, error)
  /\ UNCHANGED <<registryVars, browserVars, h, chainOut, sr, rd, uiVars>>

ApiAborted ==
  /\ \E c \in Calls, error \in {TimeoutReason, AbortError} : apiAborted(c, error)
  /\ UNCHANGED <<registryVars, browserVars, h, chainOut, sr, rd, uiVars>>

ApiBodyRead ==
  /\ \E c \in Calls, body \in Bodies : apiBodyRead(c, body)
  /\ UNCHANGED <<registryVars, browserVars, h, chainOut, sr, rd, uiVars>>

ApiRetries ==
  /\ \E c \in Calls : apiRetries(c)
  /\ UNCHANGED <<registryVars, browserVars, h, chainOut, hook, sr, rd, uiVars>>

NextApi ==
  \/ ApiRequest
  \/ ApiTimeoutFires
  \/ ApiSignalAborts
  \/ ApiFetchResolves
  \/ ApiFetchFails
  \/ ApiAborted
  \/ ApiBodyRead
  \/ ApiRetries

SpecApi == Init /\ [][NextApi]_vars

----------------------------------------------------------------------------
(* A mounted hook whose execute is called up to MaxCalls times *)

InitHook ==
  /\ InitRegistry
  /\ InitBrowser
  /\ h = IdleRequest
  /\ chainOut = NoChainRun
  /\ api = [c \in Calls |-> IdleCall]
  /\ hook \in {[Unmounted EXCEPT !.kind = k] : k \in HookKinds}
  /\ sr = NoShouldRetry
  /\ rd = NoRetryDelay
  /\ InitUi

Execute ==
  /\ \E args \in ArgShapes : execute(args)
  /\ UNCHANGED <<registryVars, browserVars, h, chainOut, sr, rd, uiVars>>

\* The server's answers to the hook's calls: 200 or 500 with a readable body,
\* or a network failure.
HookFetchResolves ==
  /\ \E c \in Calls, status \in {200, 500} : apiFetchResolves(c, status)
  /\ UNCHANGED <<registryVars, browserVars, h, chainOut, hook, sr, rd, uiVars>>

HookFetchFails ==
  /\ \E c \in Calls : apiFetchFails(c, FailedToFetch)
  /\ UNCHANGED <<registryVars, browserVars, h, chainOut, sr, rd, uiVars>>

HookBodyRead ==
  /\ \E c \in Calls : apiBodyRead(c, "nomessage")
  /\ UNCHANGED <<registryVars, browserVars, h, chainOut, sr, rd, uiVars>>

NextHook ==
  \/ Execute
  \/ ApiTimeoutFires
  \/ HookFetchResolves
  \/ HookFetchFails
  \/ ApiAborted
  \/ HookBodyRead
  \/ ApiRetries

SpecHook == InitHook /\ [][NextHook]_vars

\* The same hook with reset called at any time.
Reset ==
  /\ reset
  /\ UNCHANGED <<registryVars, browserVars, h, chainOut, sr, rd, uiVars>>

NextHookReset ==
  \/ Execute
  \/ Reset
  \/ ApiTimeoutFires
  \/ HookFetchResolves
  \/ HookFetchFails
  \/ ApiAborted
  \/ HookBodyRead
  \/ ApiRetries

SpecHookReset == InitHook /\ [][NextHookReset]_vars

----------------------------------------------------------------------------
(* shouldRetry on its own *)

CallShouldRetry ==
  \E error \in ClassifiedErrors, retryCount \in 0..MaxCount, maxRetries \in 0..MaxCount :
    callShouldRetry(error, retryCount, maxRetries)

NextRetry == CallShouldRetry

SpecRetry == Init /\ [][NextRetry]_vars

----------------------------------------------------------------------------
(* getRetryDelay on its own *)

CallGetRetryDelay ==
  \E retryCount \in 0..MaxRetryCount, r \in 0..(RandomSteps - 1) :
    callGetRetryDelay(retryCount, r)

NextDelay == CallGetRetryDelay

SpecDelay == Init /\ [][NextDelay]_vars

----------------------------------------------------------------------------
(* One logical request, issued through either layer. The two layers share no
   state, so the application issues the request through createHttpClient's
   request, with the registries changing around it, or through apiRequest,
   which reads no registry. *)

ClientHttpRequest ==
  /\ api[1].pc = "idle"
  /\ HttpRequest

ClientApiRequest ==
  /\ h.pc = "idle"
  /\ Len(regLog) = Len(DefaultRegs)
  /\ ApiRequest

ClientAddRequestInterceptor ==
  /\ api[1].pc = "idle"
  /\ AddRequestInterceptor

ClientAddResponseInterceptor ==
  /\ api[1].pc = "idle"
  /\ AddResponseInterceptor

ClientAddErrorInterceptor ==
  /\ api[1].pc = "idle"
  /\ AddErrorInterceptor

NextClient ==
  \/ ClientAddRequestInterceptor
  \/ ClientAddResponseInterceptor
  \/ ClientAddErrorInterceptor
  \/ ClientHttpRequest
  \/ HttpTimeout
  \/ HttpFetchResolves
  \/ HttpFetchRejects
  \/ HttpBodyRead
  \/ HttpErrorBodyRead
  \/ HttpRetryDelayElapses
  \/ ClientApiRequest
  \/ ApiTimeoutFires
  \/ ApiSignalAborts
  \/ ApiFetchResolves
  \/ ApiFetchFails
  \/ ApiAborted
  \/ ApiBodyRead
  \/ ApiRetries

SpecClient == Init /\ [][NextClient]_vars

\* Every pending fetch and body read settles and every retry delay elapses:
\* the promises the request awaits are settled by the platform.
HttpPromiseSettles ==
  \/ HttpFetchResolves
  \/ HttpFetchRejects
  \/ HttpBodyRead
  \/ HttpErrorBodyRead

ApiPromiseSettles ==
  \/ ApiFetchResolves
  \/ ApiFetchFails
  \/ ApiAborted
  \/ ApiBodyRead

\* The request alone, with the registries as the module loads them.
NextRequest ==
  \/ ClientHttpRequest
  \/ HttpTimeout
  \/ HttpFetchResolves
  \/ HttpFetchRejects
  \/ HttpBodyRead
  \/ HttpErrorBodyRead
  \/ HttpRetryDelayElapses
  \/ ClientApiRequest
  \/ ApiTimeoutFires
  \/ ApiSignalAborts
  \/ ApiFetchResolves
  \/ ApiFetchFails
  \/ ApiAborted
  \/ ApiBodyRead
  \/ ApiRetries

SpecRequestFair ==
  /\ Init
  /\ [][NextRequest]_vars
  /\ WF_vars(HttpPromiseSettles)
  /\ WF_vars(HttpRetryDelayElapses)
  /\ WF_vars(ApiPromiseSettles)
  /\ WF_vars(ApiRetries)

----------------------------------------------------------------------------
(* Claims about createHttpClient().request (and apiRequest where named) *)

\* C1: after a response with status 400, 401, 403, 404 or 422 no further
\* fetch is made for that request: the attempt that received it is the last.
C1_TerminalStatusIsFinal ==
  /\ h.terminalAt # 0 => h.fetches = h.terminalAt
  /\ \A c \in Calls : api[c].terminalAt # 0 => api[c].fetches = api[c].terminalAt

\* C2: once an error interceptor has returned null, no interceptor registered
\* after it is invoked for that error and the call resolves with null.
C2_NullShortCircuits ==
  h.pc = "done" =>
    \A i \in 1..Len(h.errCalls) :
      h.errCalls[i].out = "null" =>
        /\ i = Len(h.errCalls)
        /\ h.result.kind = "null"

\* A handled failure with a later interceptor registered and left uncalled.
C2_Witness ==
  /\ h.pc = "done"
  /\ h.result.kind = "null"
  /\ h.errSkipped > 0
  /\ h.errCalls[Len(h.errCalls)].out = "null"

\* C4: whatever an attempt failed with (no interceptor having thrown), the
\* error thrown to the caller and every error handed to an error interceptor
\* is an ApiError.
C4_OnlyApiErrorsSurface ==
  /\ h.threw = {} =>
       /\ h.result.kind = "thrown" => h.result.error.api
       /\ \A i \in 1..Len(h.errCalls) : h.errCalls[i].arg.api
  /\ \A c \in Calls : api[c].result.kind = "thrown" => api[c].result.error.api

\* C5: an exception thrown by an interceptor never reaches the caller, and a
\* request whose 2xx response was read never ends as a failure because of it.
C5_InterceptorThrowIsNoOp ==
  h.pc = "done" =>
    /\ h.result.error # InterceptorError
    /\ \A i \in 1..Len(h.errCalls) : h.errCalls[i].arg # InterceptorError
    /\ "request" \in h.threw => h.fetches > 0
    /\ h.okBody /\ "response" \in h.threw => h.result.kind = "resolved"

----------------------------------------------------------------------------
(* Claims about the registries *)

\* C6: a chain applies the interceptors in the order of the registrations
\* that survive, each to the output of the one before: the tags a chain run
\* returns are the surviving transforming interceptors in registration order.
C6_ChainFollowsSurvivingOrder ==
  chainOut.chain # "none" => chainOut.tags = chainOut.surviving

----------------------------------------------------------------------------
(* Claims about apiRequest *)

\* C7: an attempt that failed by network error, timeout or 5xx status while
\* fewer retries than the cap had been made is retried: the caller is thrown
\* such a failure only once the retries made have reached the cap.
C7_TransientFailuresAreRetried ==
  /\ \A c \in Calls :
       (api[c].pc = "done" /\ api[c].result.kind = "thrown"
          /\ api[c].cause \in {"network", "timeout", "server"})
         => api[c].failedAt >= api[c].retries
  /\ (h.pc = "done" /\ h.lastError.api
        /\ (h.lastError.status \in {0, 408} \/ h.lastError.status >= 500))
       => h.attempt >= h.retries

\* C9: an attempt the timeout timer aborted surfaces as kind timeout, one the
\* caller's signal aborted as kind canceled.
C9_AbortKinds ==
  \A c \in Calls :
    (api[c].pc = "done" /\ api[c].result.kind = "thrown") =>
      /\ api[c].cause = "timeout" => api[c].result.error.type = "timeout"
      /\ api[c].cause = "caller" => api[c].result.error.type = "canceled"

\* C10: while an attempt is in flight, the timeout having fired or the
\* caller's signal having fired means the signal fetch runs under is aborted.
C10_EitherSourceAborts ==
  \A c \in Calls :
    (api[c].pc = "fetch" /\ (api[c].ctrlAborted \/ api[c].callerAborted))
      => requestSignalAborted(api[c])

----------------------------------------------------------------------------
(* Claims about shouldRetry *)

\* The decision table of the retry policy.
RetryTable(kind, attemptsMade, maxRetries) ==
  attemptsMade < maxRetries /\ kind \in {"network", "timeout", "server"}

\* C8: shouldRetry agrees with the decision table: true exactly when the
\* attempts made are below the cap and the kind is network, timeout or server.
C8_ShouldRetryMatchesTable ==
  sr.out # "none" =>
    (sr.out = "true") = RetryTable(sr.error.type, sr.retryCount, sr.maxRetries)

\* shouldRetry refused a not_found error at attempt 0 with retries left.
C8_Witness ==
  /\ sr.out = "false"
  /\ sr.error.type = "not_found"
  /\ sr.retryCount = 0
  /\ sr.maxRetries > 0

----------------------------------------------------------------------------
(* Claims about useApi *)

\* C3: a call that was in flight when execute was called again never changes
\* the hook's state, and once every call has settled with the newest one
\* resolved, data is the newest call's result.
C3_SupersededCallNeverApplies ==
  /\ hook.superseded \cap hook.applied = {}
  /\ (/\ hook.issued > 0
      /\ \A c \in 1..hook.issued : api[c].pc = "done"
      /\ api[hook.issued].result.kind = "resolved")
       => hook.data = hook.issued

----------------------------------------------------------------------------
(* Claims about timers, attempts and waits of one logical request *)

\* C11: once a logical request has settled (resolved, returned null or
\* thrown), the timeout timer armed for it is no longer pending, in
\* createHttpClient's request and in apiRequest.
C11_NoTimerAfterSettle ==
  /\ h.pc = "done" => ~h.timerPending
  /\ \A c \in Calls : api[c].pc = "done" => ~api[c].timerPending

\* An apiRequest call that settled after a retry, by success or by failure.
C11_Witness ==
  /\ api[1].pc = "done"
  /\ api[1].fetches > 1
  /\ ~api[1].timerPending

\* C12: with the registries as the module loads them, a request answered
\* with 401 and a body carrying a message has settled by throwing an error
\* with status 401 and that message (of kind auth in apiRequest, whose errors
\* carry a kind), and is not attempted again.
C12_Unauthorized401Throws ==
  /\ (/\ regLog = DefaultRegs
      /\ h.lastError = HttpApiError("data.message", 401))
       => /\ h.pc = "done"
          /\ h.result.kind = "thrown"
          /\ h.result.error.status = 401
          /\ h.result.error.message = "data.message"
  /\ \A c \in Calls :
       (api[c].cause = "status" /\ api[c].status = 401 /\ api[c].body = "message")
         => /\ api[c].pc = "done"
            /\ api[c].result = Thrown(ClientApiError("data.message",
                                                     "authentication", 401))

\* C13: when every attempt before the current one failed at network level
\* and the current one received a 2xx response whose body was read, the
\* request has resolved, after one backoff wait per failed attempt; and a
\* request all of whose attempts failed at network level throws only once
\* retries + 1 attempts have been made.
C13_ResolvesAfterNetworkFailures ==
  /\ (h.okBody /\ h.netFails = h.fetches - 1)
       => (h.result.kind = "resolved" /\ h.waits = h.netFails)
  /\ (h.result.kind = "thrown" /\ h.fetches > 0 /\ h.netFails = h.fetches)
       => h.fetches = h.retries + 1
  /\ \A c \in Calls :
       /\ (api[c].result.kind = "resolved" /\ api[c].netFails = api[c].fetches - 1)
            => api[c].waits = api[c].netFails
       /\ (api[c].result.kind = "thrown" /\ api[c].netFails = api[c].fetches)
            => api[c].fetches = api[c].retries + 1

----------------------------------------------------------------------------
(* Claims about classification and backoff *)

\* The closed set of kinds and the status rows of the priority table.
ErrorKinds == {"network", "timeout", "server", "authentication", "validation",
               "not_found", "canceled", "unknown"}

KindOfStatus(status) ==
  CASE status >= 500 -> "server"
    [] status \in {401, 403} -> "authentication"
    [] status = 404 -> "not_found"
    [] status = 422 -> "validation"
    [] OTHER -> "unknown"

\* C14: every failure apiRequest throws carries one kind of the closed set;
\* when the failed attempt had received a non-2xx response the kind is the
\* one the table gives for its status, and when it had received none and was
\* not aborted the kind is network.
C14_ClassificationFollowsTable ==
  \A c \in Calls :
    (api[c].pc = "done" /\ api[c].result.kind = "thrown") =>
      /\ api[c].result.error.type \in ErrorKinds
      /\ (api[c].cause \in {"server", "status", "parse"}
            /\ api[c].status \notin OkStatuses)
           => api[c].result.error.type = KindOfStatus(api[c].status)
      /\ api[c].cause = "network" => api[c].result.error.type = "network"

\* C15: for every retry count n in 1..5 and every draw, getRetryDelay(n) lies
\* within 0.8 and 1.2 times min(3000, 300 * 2^n) milliseconds; the value
\* before jitter is at most 3000 and is not below that of n - 1.
C15_DelayWithinBounds ==
  LET n == rd.retryCount
      power == 300 * 2 ^ n
      unjittered == IF power < 3000 THEN power ELSE 3000
  IN n \in 1..5 =>
       /\ 8 * unjittered * DelayScale <= 10 * rd.delay
       /\ 10 * rd.delay <= 12 * unjittered * DelayScale
       /\ rd.exponentialDelay <= 3000
       /\ rd.exponentialDelay >= getRetryDelay(n - 1, rd.r).exponentialDelay

\* The capped delay of the fifth retry with the lowest draw.
C15_Witness ==
  /\ rd.retryCount = 5
  /\ rd.r = 0
  /\ rd.exponentialDelay = 3000
  /\ rd.delay < 3000 * DelayScale

\* C16: a logical request with retries = N makes at most N + 1 fetches, each
\* fetch after the first consuming one retry; the attempt counter never
\* decreases; and a request that was issued settles, its fetches, body reads
\* and retry delays settling.
C16_BoundedAttemptsThenSettles ==
  /\ [](/\ h.fetches <= h.retries + 1
        /\ h.fetches <= h.attempt + 1
        /\ \A c \in Calls : /\ api[c].fetches <= api[c].retries + 1
                             /\ api[c].fetches <= api[c].currentRetry + 1
                             /\ api[c].currentRetry <= api[c].retries)
  /\ [][/\ h'.attempt >= h.attempt
        /\ \A c \in Calls : api'[c].currentRetry >= api[c].currentRetry]_vars
  /\ (h.pc \notin {"idle", "done"} \/ \E c \in Calls : api[c].pc \notin {"idle", "done"})
       ~> (h.pc \in {"idle", "done"} /\ \A c \in Calls : api[c].pc \in {"idle", "done"})

\* An apiRequest call that settled having used every retry.
C16_Witness ==
  /\ api[1].pc = "done"
  /\ api[1].retries > 0
  /\ api[1].fetches = api[1].retries + 1

\* C17: every attempt runs under the timeout: while a fetch is in flight
\* its timeout timer is pending or has fired; and the timeout that fired for
\* an earlier attempt leaves a later attempt unaborted.
C17_EveryAttemptHasItsTimeout ==
  /\ h.pc = "fetch" => (h.timerPending \/ h.aborted)
  /\ (h.pc = "fetch" /\ h.lastError = HttpApiError("Request timed out", 408))
       => ~h.aborted
  /\ \A c \in Calls :
       /\ api[c].pc = "fetch" => (api[c].timerPending \/ api[c].ctrlAborted)
       /\ (api[c].pc = "fetch" /\ api[c].fetches > 1) => ~api[c].ctrlAborted

----------------------------------------------------------------------------
(* Claims about the chains around the attempts of one request *)

\* C18: the configuration an attempt is fetched with is the one the request
\* chain derives from the merged options when that attempt is issued.
C18_ConfigDerivedPerAttempt ==
  h.pc = "fetch" => h.config = h.derived

\* C19: the response chain runs only for a request that has resolved, the
\* error chain only for one that has thrown or returned null, and a settled
\* request has seen exactly one run of exactly one of the two.
C19_ExactlyOneTerminalChain ==
  /\ h.respRuns > 0 => (h.pc = "done" /\ h.result.kind = "resolved")
  /\ h.errRuns > 0 => (h.pc = "done" /\ h.result.kind \in {"thrown", "null"})
  /\ h.pc = "done" => h.respRuns + h.errRuns = 1

\* C20: a backoff wait lies between any two consecutive attempts: when the
\* n-th fetch of a request is in flight, n - 1 retry delays have been waited.
C20_WaitBetweenAttempts ==
  /\ h.pc = "fetch" => h.waits = h.fetches - 1
  /\ \A c \in Calls : api[c].pc = "fetch" => api[c].waits = api[c].fetches - 1

----------------------------------------------------------------------------
(* Claims about the loading flag of useApi *)

\* C21: loading is true while a call issued by execute whose controller the
\* hook has not aborted is in flight, and false once every call issued has
\* settled.
C21_LoadingTracksCalls ==
  /\ (\E c \in 1..hook.issued : c \notin hook.canceled /\ api[c].pc # "done")
       => hook.loading
  /\ (hook.issued > 0 /\ \A c \in 1..hook.issued : api[c].pc = "done")
       => ~hook.loading

----------------------------------------------------------------------------
(* Two logical requests in flight together *)

\* The number of logical requests issued so far, over both layers.
issuedRequests ==
  (IF h.pc # "idle" THEN 1 ELSE 0)
    + Cardinality({c \in Calls : api[c].pc # "idle"})

\* At most two logical requests are issued: one through http.js and one
\* through apiRequest, or two through apiRequest.
PairHttpRequest ==
  /\ issuedRequests < 2
  /\ \E retries \in 0..MaxRetries : request(retries)
  /\ UNCHANGED <<chainOut, api, hook, sr, rd, uiVars>>

PairApiRequest ==
  /\ issuedRequests < 2
  /\ \E c \in Calls, retries \in 0..MaxRetries, signal \in BOOLEAN :
       apiRequest(c, retries, signal, "undefined")
  /\ UNCHANGED <<registryVars, browserVars, h, chainOut, hook, sr, rd, uiVars>>

\* The server's answers to the pair: 200 or 500, or a network failure.
PairHttpFetchResolves ==
  /\ \E status \in {200, 500} : fetchResolves(status)
  /\ UNCHANGED <<chainOut, api, hook, sr, rd, uiVars>>

PairHttpFetchRejects ==
  /\ \E error \in {AbortError, FailedToFetch} : fetchRejects(error)
  /\ UNCHANGED <<chainOut, api, hook, sr, rd, uiVars>>

PairHttpErrorBodyRead ==
  /\ errorBodyRead("nomessage")
  /\ UNCHANGED <<chainOut, api, hook, sr, rd, uiVars>>

NextPair ==
  \/ PairHttpRequest
  \/ HttpTimeout
  \/ PairHttpFetchResolves
  \/ PairHttpFetchRejects
  \/ HttpBodyRead
  \/ PairHttpErrorBodyRead
  \/ HttpRetryDelayElapses
  \/ PairApiRequest
  \/ ApiTimeoutFires
  \/ ApiSignalAborts
  \/ HookFetchResolves
  \/ HookFetchFails
  \/ ApiAborted
  \/ HookBodyRead
  \/ ApiRetries

\* A signed-in user on a page of the application.
InitPair ==
  /\ InitRegistry
  /\ localStorage = [auth_token |-> "tok", auth_redirect |-> "none"]
  /\ pathname = "/dashboard"
  /\ h = IdleRequest
  /\ chainOut = NoChainRun
  /\ api = [c \in Calls |-> IdleCall]
  /\ hook = Unmounted
  /\ sr = NoShouldRetry
  /\ rd = NoRetryDelay
  /\ InitUi

SpecPair == InitPair /\ [][NextPair]_vars

\* C22: of two logical requests in flight together, every step (an attempt's
\* answer, a timeout, a cancellation, a retry, a terminal failure) changes
\* the retry counter, timer, controller, attempts and outcome of one request
\* only; and each request's attempts are bounded by its own retry budget.
C22_RequestsAreIndependent ==
  [][/\ Cardinality({c \in Calls : api'[c] # api[c]}
                      \cup (IF h' # h THEN {0} ELSE {})) <= 1
     /\ \A c \in Calls : api'[c].fetches <= api'[c].retries + 1
     /\ h'.fetches <= h'.retries + 1]_vars

\* Two requests are in flight, the first one's timeout has aborted its
\* controller, and the second one's timer is still armed and its controller
\* not aborted.
C22_Witness ==
  \E c \in Calls :
    /\ api[c].pc = "fetch" /\ api[c].ctrlAborted /\ ~api[c].hasSignal
    /\ \/ \E d \in Calls \ {c} :
            api[d].pc = "fetch" /\ api[d].timerPending /\ ~api[d].ctrlAborted
       \/ h.pc = "fetch" /\ h.timerPending /\ ~h.aborted

----------------------------------------------------------------------------
(* Claims about registration and removal *)

\* The functions a registry holds, in the order it holds them.
registryFns(arr) == [i \in 1..Len(arr) |-> arr[i].fn]

\* C23: every registry holds exactly the registrations made to it whose
\* remover has not been called, in registration order: an add appends to its
\* own registry, a remover takes out its own registration only, calling it
\* again changes nothing, and running a chain changes no registry.
C23_RegistryHoldsSurvivingRegistrations ==
  /\ registryFns(requestInterceptors) = surviving("request")
  /\ registryFns(responseInterceptors) = surviving("response")
  /\ registryFns(errorInterceptors) = surviving("error")

----------------------------------------------------------------------------
(* The application store on its own *)

\* Nothing of the HTTP layers is in use.
InitIdle ==
  /\ InitRegistry
  /\ localStorage = [auth_token |-> "none", auth_redirect |-> "none"]
  /\ pathname = "/dashboard"
  /\ h = IdleRequest
  /\ chainOut = NoChainRun
  /\ api = [c \in Calls |-> IdleCall]
  /\ hook = Unmounted
  /\ sr = NoShouldRetry
  /\ rd = NoRetryDelay

InitStore ==
  /\ InitIdle
  /\ InitUi

\* storeLog keeps the last two actions, each with the state it was called in.
logged(action) ==
  LET all == Append(storeLog, [action |-> action, before |-> store])
  IN storeLog' = IF Len(all) > 2 THEN Tail(all) ELSE all

StoreSetLoading ==
  /\ \E isLoading \in BOOLEAN : setLoading(isLoading)
  /\ logged("setLoading")
  /\ UNCHANGED <<registryVars, browserVars, h, chainOut, api, hook, sr, rd, pg, form>>

StoreSetError ==
  /\ \E error \in {"null", "boom"} : setError(error)
  /\ logged("setError")
  /\ UNCHANGED <<registryVars, browserVars, h, chainOut, api, hook, sr, rd, pg, form>>

StoreClearError ==
  /\ clearError
  /\ logged("clearError")
  /\ UNCHANGED <<registryVars, browserVars, h, chainOut, api, hook, sr, rd, pg, form>>

StoreSetUser ==
  /\ \E user \in Users : setUser(user)
  /\ logged("setUser")
  /\ UNCHANGED <<registryVars, browserVars, h, chainOut, api, hook, sr, rd, pg, form>>

StoreLogout ==
  /\ logout
  /\ logged("logout")
  /\ UNCHANGED <<registryVars, browserVars, h, chainOut, api, hook, sr, rd, pg, form>>

StoreSetTheme ==
  /\ \E theme \in Themes : setTheme(theme)
  /\ logged("setTheme")
  /\ UNCHANGED <<registryVars, browserVars, h, chainOut, api, hook, sr, rd, pg, form>>

StoreToggleTheme ==
  /\ toggleTheme
  /\ logged("toggleTheme")
  /\ UNCHANGED <<registryVars, browserVars, h, chainOut, api, hook, sr, rd, pg, form>>

NextStore ==
  \/ StoreSetLoading
  \/ StoreSetError
  \/ StoreClearError
  \/ StoreSetUser
  \/ StoreLogout
  \/ StoreSetTheme
  \/ StoreToggleTheme

SpecStore == InitStore /\ [][NextStore]_vars

----------------------------------------------------------------------------
(* apiRequest while the user signs in and out *)

\* The store as created or as rehydrated from an earlier session; when it is
\* as created the item may be missing or unreadable.
InitAuth ==
  /\ InitIdle
  /\ \/ /\ store = InitialStore
        /\ appStorage \in {NoItem, CorruptItem, setItem(InitialStore)}
     \/ /\ store \in {[InitialStore EXCEPT !.user = u] : u \in Users}
        /\ appStorage = setItem(store)
  /\ loggedOut = FALSE
  /\ storeLog = <<>>
  /\ pg = Mounted(1, 0)
  /\ form = NewForm("empty", FALSE)

AuthSetUser ==
  /\ \E user \in Users : setUser(user)
  /\ UNCHANGED <<registryVars, browserVars, h, chainOut, api, hook, sr, rd,
                 storeLog, pg, form>>

AuthLogout ==
  /\ logout
  /\ UNCHANGED <<registryVars, browserVars, h, chainOut, api, hook, sr, rd,
                 storeLog, pg, form>>

AuthApiRequest ==
  /\ \E retries \in 0..MaxRetries, auth \in AuthOptions :
       apiRequest(1, retries, FALSE, auth)
  /\ UNCHANGED <<registryVars, browserVars, h, chainOut, hook, sr, rd, uiVars>>

NextAuth ==
  \/ AuthSetUser
  \/ AuthLogout
  \/ AuthApiRequest
  \/ ApiTimeoutFires
  \/ HookFetchResolves
  \/ HookFetchFails
  \/ ApiAborted
  \/ HookBodyRead
  \/ ApiRetries

SpecAuth == InitAuth /\ [][NextAuth]_vars

----------------------------------------------------------------------------
(* Claims about authentication headers *)

\* C24: every attempt carries Authorization: Bearer <token> exactly when its
\* request's auth option is not false and the store holds a token when the
\* attempt is sent, and then it is that token; otherwise the attempt carries
\* no Authorization header, and it is sent all the same.
C24_BearerIffAuthAndToken ==
  \A c \in Calls :
    /\ Len(api[c].sent) = api[c].fetches
    /\ \A i \in 1..Len(api[c].sent) :
         LET a == api[c].sent[i]
         IN IF a.auth # "false" /\ a.stored \notin {"undefined", ""}
            THEN a.Authorization = Bearer(a.stored)
            ELSE a.Authorization = NoAuthorization

\* A request has resolved after two attempts, each carrying the token that
\* was stored when it was sent.
C24_Witness ==
  /\ api[1].pc = "done" /\ api[1].result.kind = "resolved"
  /\ Len(api[1].sent) = 2
  /\ api[1].sent[1].Authorization = Bearer("tok1")
  /\ api[1].sent[2].Authorization = Bearer("tok2")

\* C25: an attempt sent after logout, and before setUser has stored a user with
\* a token again, carries no Authorization header, whether it is the first
\* attempt of a request or a retry of a request issued before the logout.
C25_NoTokenAfterLogout ==
  \A c \in Calls : \A i \in 1..Len(api[c].sent) :
    api[c].sent[i].loggedOut => api[c].sent[i].Authorization = NoAuthorization

\* A request whose first attempt carried the token was retried after logout.
C25_Witness ==
  /\ Len(api[1].sent) = 2
  /\ api[1].sent[1].Authorization = Bearer("tok1")
  /\ api[1].sent[2].loggedOut
  /\ api[1].sent[2].Authorization = NoAuthorization

----------------------------------------------------------------------------
(* Claims about the application store *)

\* C30: every action of the store leaves the fields that are not its own as
\* they were; logout stores {id: null, name: null}, clearError stores null,
\* toggleTheme keeps the theme within light and dark, and two toggleTheme
\* calls in a row give back the theme they started from.
C30_ActionsChangeOwnFieldOnly ==
  storeLog # <<>> =>
    LET last == storeLog[Len(storeLog)]
        before == last.before
    IN /\ last.action = "setLoading"
            => store = [before EXCEPT !.isLoading = store.isLoading]
       /\ last.action \in {"setError", "clearError"}
            => store = [before EXCEPT !.error = store.error]
       /\ last.action = "clearError" => store.error = "null"
       /\ last.action \in {"setUser", "logout"}
            => store = [before EXCEPT !.user = store.user]
       /\ last.action = "logout"
            => /\ store.user.id = "null" /\ store.user.name = "null"
               /\ store.user.token = "undefined"
       /\ last.action \in {"setTheme", "toggleTheme"}
            => store = [before EXCEPT !.theme = store.theme]
       /\ last.action = "toggleTheme"
            => store.theme \in Themes /\ store.theme # before.theme
       /\ (Len(storeLog) = 2 /\ last.action = "toggleTheme"
             /\ storeLog[1].action = "toggleTheme")
            => store.theme = storeLog[1].before.theme

\* A signed-in user with the dark theme, an error and the loading flag set
\* has logged out and toggled the theme.
C30_Witness ==
  /\ Len(storeLog) = 2
  /\ storeLog[1].action = "logout" /\ storeLog[2].action = "toggleTheme"
  /\ storeLog[1].before.user.token = "tok1"
  /\ storeLog[1].before.isLoading /\ storeLog[1].before.error = "boom"
  /\ store.theme = "light"

----------------------------------------------------------------------------
(* Claims about error responses whose body cannot be read *)

\* C26: when the attempt that ended last received a non-2xx response whose
\* body could not be read, the request is not retried on account of the read
\* failure (it waits for a retry only if the status is one that is retried),
\* and when it fails it throws the error classified for that status, with
\* that status, never a network error.
C26_UnreadableBodyKeepsHttpError ==
  \A c \in Calls :
    (api[c].cause = "parse" /\ api[c].body = "unreadable"
       /\ api[c].status \in ErrStatuses) =>
      /\ api[c].pc = "wait" => api[c].status >= 500
      /\ api[c].pc = "done" =>
           /\ api[c].result.kind = "thrown"
           /\ api[c].result.error.type = KindOfStatus(api[c].status)
           /\ api[c].result.error.status = api[c].status

----------------------------------------------------------------------------
(* One usePagination hook and the component that uses it *)

InitPagination ==
  /\ InitIdle
  /\ store = InitialStore
  /\ appStorage = setItem(InitialStore)
  /\ loggedOut = FALSE
  /\ storeLog = <<>>
  /\ pg \in {Mounted(pageSize, totalItems) :
               pageSize \in PageSizes, totalItems \in 0..MaxItems}
  /\ form = NewForm("empty", FALSE)

\* The component may call at most MaxBatch functions of the hook before React
\* renders it again.
canCall == Len(pg.batch) < MaxBatch

GoToPage ==
  /\ canCall
  /\ \E newPage \in 0..(MaxItems + 1) : goToPage(newPage)
  /\ UNCHANGED <<registryVars, browserVars, h, chainOut, api, hook, sr, rd,
                 storeVars, form>>

NextPage ==
  /\ canCall
  /\ nextPage
  /\ UNCHANGED <<registryVars, browserVars, h, chainOut, api, hook, sr, rd,
                 storeVars, form>>

PrevPage ==
  /\ canCall
  /\ prevPage
  /\ UNCHANGED <<registryVars, browserVars, h, chainOut, api, hook, sr, rd,
                 storeVars, form>>

FirstPage ==
  /\ canCall
  /\ firstPage
  /\ UNCHANGED <<registryVars, browserVars, h, chainOut, api, hook, sr, rd,
                 storeVars, form>>

LastPage ==
  /\ canCall
  /\ lastPage
  /\ UNCHANGED <<registryVars, browserVars, h, chainOut, api, hook, sr, rd,
                 storeVars, form>>

ChangePageSize ==
  /\ canCall
  /\ \E newSize \in PageSizes : changePageSize(newSize)
  /\ UNCHANGED <<registryVars, browserVars, h, chainOut, api, hook, sr, rd,
                 storeVars, form>>

\* React renders the component after state updates.
Render ==
  /\ pg.batch # <<>>
  /\ render(pg.totalItems)
  /\ UNCHANGED <<registryVars, browserVars, h, chainOut, api, hook, sr, rd,
                 storeVars, form>>

\* The parent renders the component with another totalItems.
SetTotalItems ==
  /\ \E totalItems \in (0..MaxItems) \ {pg.totalItems} : render(totalItems)
  /\ UNCHANGED <<registryVars, browserVars, h, chainOut, api, hook, sr, rd,
                 storeVars, form>>

NextPagination ==
  \/ GoToPage
  \/ NextPage
  \/ PrevPage
  \/ FirstPage
  \/ LastPage
  \/ ChangePageSize
  \/ Render
  \/ SetTotalItems

SpecPagination == InitPagination /\ [][NextPagination]_vars

----------------------------------------------------------------------------
(* Claims about usePagination *)

\* C27: once every pending update has been rendered and the clamping effect
\* has run, 1 <= page <= totalPages, where totalPages is
\* max(1, ceil(totalItems / pageSize)), hasNextPage is page < totalPages and
\* hasPrevPage is page > 1.
C27_PageWithinRange ==
  (pg.queue = <<>> /\ pg.pendingSize = 0) =>
    LET pages == IF pg.totalItems = 0 THEN 1
                 ELSE CHOOSE n \in 1..pg.totalItems :
                        (n - 1) * pg.pageSize < pg.totalItems
                          /\ pg.totalItems <= n * pg.pageSize
    IN /\ pg.info.totalPages = pages
       /\ 1 <= pg.page /\ pg.page <= pages
       /\ pg.info.hasNextPage = (pg.page < pages)
       /\ pg.info.hasPrevPage = (pg.page > 1)

\* C28: changePageSize(newSize) called on page `page` with page size
\* `pageSize` computes a page newPage that holds the first item of the page
\* it was called on, (newPage - 1) * newSize <= (page - 1) * pageSize <
\* newPage * newSize; and when it is the only call before the next render,
\* that render shows page newPage with page size newSize (the last page when
\* the items no longer reach newPage).
C28_FirstItemStaysInView ==
  pg.last # NoChange =>
    /\ (pg.last.newPage - 1) * pg.last.newSize <= (pg.last.page - 1) * pg.last.pageSize
    /\ (pg.last.page - 1) * pg.last.pageSize < pg.last.newPage * pg.last.newSize
    /\ pg.batch = <<>> =>
         /\ pg.pageSize = pg.last.newSize
         /\ pg.page = IF pg.last.newPage > pg.info.totalPages
                      THEN pg.info.totalPages ELSE pg.last.newPage

\* Page 2 of pages of three items became page 2 of pages of two items.
C28_Witness ==
  /\ pg.last = [page |-> 2, pageSize |-> 3, newSize |-> 2, newPage |-> 2]
  /\ pg.batch = <<>>
  /\ pg.page = 2 /\ pg.pageSize = 2

----------------------------------------------------------------------------
(* One useForm hook and the component that uses it *)

InitForm ==
  /\ InitIdle
  /\ store = InitialStore
  /\ appStorage = setItem(InitialStore)
  /\ loggedOut = FALSE
  /\ storeLog = <<>>
  /\ pg = Mounted(1, 0)
  /\ form \in {NewForm(schema, hasOnSubmit) :
                 schema \in Schemas, hasOnSubmit \in BOOLEAN}

SetFieldValue ==
  /\ \E value \in FieldValues : setFieldValue(value)
  /\ UNCHANGED <<registryVars, browserVars, h, chainOut, api, hook, sr, rd,
                 storeVars, pg>>

SetFieldTouched ==
  /\ setFieldTouched
  /\ UNCHANGED <<registryVars, browserVars, h, chainOut, api, hook, sr, rd,
                 storeVars, pg>>

ResetForm ==
  /\ resetForm
  /\ UNCHANGED <<registryVars, browserVars, h, chainOut, api, hook, sr, rd,
                 storeVars, pg>>

HandleSubmit ==
  /\ \E sync \in {"returns", "throws"} : handleSubmit(sync)
  /\ UNCHANGED <<registryVars, browserVars, h, chainOut, api, hook, sr, rd,
                 storeVars, pg>>

OnSubmitSettles ==
  /\ \E n \in form.pending, outcome \in {"resolved", "threw"} :
       onSubmitSettles(n, outcome)
  /\ UNCHANGED <<registryVars, browserVars, h, chainOut, api, hook, sr, rd,
                 storeVars, pg>>

NextForm ==
  \/ SetFieldValue
  \/ SetFieldTouched
  \/ ResetForm
  \/ HandleSubmit
  \/ OnSubmitSettles

SpecForm == InitForm /\ [][NextForm]_vars

----------------------------------------------------------------------------
(* Claims about useForm *)

\* C29: onSubmit is only ever called with values that pass validation;
\* isSubmitting is true only while a call of onSubmit is pending; it is false
\* after a step in which onSubmit resolves or throws; and a handleSubmit that
\* validation stops leaves isSubmitting as it was and calls nothing.
C29_SubmittingOnlyWhilePending ==
  [][/\ \A v \in form'.submitted :
          form'.validationSchema = "empty"
            \/ validateForm(v, form'.validationSchema).isValid
     /\ form'.isSubmitting => form'.pending # {}
     /\ (form'.pending # form.pending /\ form'.pending \subseteq form.pending)
          => ~form'.isSubmitting
     /\ form'.settled # form.settled => ~form'.isSubmitting
     /\ form'.refused > form.refused
          => /\ form'.isSubmitting = form.isSubmitting
             /\ form'.pending = form.pending
             /\ form'.submitted = form.submitted]_vars

\* With a schema that requires the field, one handleSubmit was refused, and
\* onSubmit was called and has thrown; nothing is pending.
C29_Witness ==
  /\ form.validationSchema = "required"
  /\ form.refused > 0
  /\ form.submitted # {}
  /\ form.settled = "threw"
  /\ form.pending = {}
  /\ ~form.isSubmitting

====
